---- MODULE Spec2Model ----
(***************************************************************************)
(* Backup Catalog & Restore Orchestrator                                   *)
(* (src/backend/modules/backups/services.py).                              *)
(*                                                                         *)
(* Python strings are modelled as sequences of one-character strings, so   *)
(* that split, strip, replace, slicing, endswith and the code-point order  *)
(* used by list.sort are computed as the interpreter computes them.        *)
(* None is the model value NoneVal.                                        *)
(***************************************************************************)
EXTENDS Integers, Sequences, FiniteSets, TLC

VARIABLES
    env,        \* process environment: the os.getenv settings
    container,  \* the object store: blobs in listing order
    ado,        \* destination host: <<project, name>> repositories that exist
    clock,      \* microseconds after ClockBase read by the next utcnow()
    call,       \* the last invocation: operation and arguments
    ret,        \* what the last invocation returned
    raised,     \* TRUE when the last invocation ended in an exception
    net         \* network calls attempted during the last invocation

vars == <<env, container, ado, clock, call, ret, raised, net>>

\* None where a dict, a datetime, a client or a URL is expected, and None
\* where a str is expected (no str of the model holds a longer element)
NoneVal == [none |-> TRUE]
NoStr == <<"None">>

(***************************************************************************)
(* str primitives                                                          *)
(***************************************************************************)
Slash == <<"/">>
Dash  == <<"-">>
DotZip == <<".", "z", "i", "p">>
NoneStr == <<"N", "o", "n", "e">>

\* s.startswith(p)
StartsWith(s, p) == Len(p) <= Len(s) /\ SubSeq(s, 1, Len(p)) = p

\* s.endswith(p)
EndsWith(s, p) ==
    Len(p) <= Len(s) /\ SubSeq(s, Len(s) - Len(p) + 1, Len(s)) = p

\* s[:n]
Take(s, n) == SubSeq(s, 1, IF n < Len(s) THEN n ELSE Len(s))

\* s.strip(c)
RECURSIVE LStrip(_, _)
LStrip(s, c) ==
    IF s # <<>> /\ Head(s) = c THEN LStrip(Tail(s), c) ELSE s

RECURSIVE RStrip(_, _)
RStrip(s, c) ==
    IF s # <<>> /\ s[Len(s)] = c THEN RStrip(SubSeq(s, 1, Len(s) - 1), c) ELSE s

Strip(s, c) == RStrip(LStrip(s, c), c)

\* position of the first c in s, 0 when there is none
RECURSIVE FindFrom(_, _, _)
FindFrom(s, c, i) ==
    IF i > Len(s) THEN 0
    ELSE IF s[i] = c THEN i
    ELSE FindFrom(s, c, i + 1)

Find(s, c) == FindFrom(s, c, 1)

\* position of the last c in s, 0 when there is none
RECURSIVE RFindFrom(_, _, _)
RFindFrom(s, c, i) ==
    IF i < 1 THEN 0
    ELSE IF s[i] = c THEN i
    ELSE RFindFrom(s, c, i - 1)

RFind(s, c) == RFindFrom(s, c, Len(s))

\* s.split(c, maxsplit); maxsplit = -1 splits at every c
RECURSIVE SplitMax(_, _, _)
SplitMax(s, c, maxsplit) ==
    LET i == Find(s, c)
    IN  IF maxsplit = 0 \/ i = 0 THEN <<s>>
        ELSE <<SubSeq(s, 1, i - 1)>>
             \o SplitMax(SubSeq(s, i + 1, Len(s)), c, maxsplit - 1)

Split(s, c) == SplitMax(s, c, -1)

\* sep.join(parts)
RECURSIVE Join(_, _)
Join(parts, sep) ==
    IF parts = <<>> THEN <<>>
    ELSE IF Len(parts) = 1 THEN parts[1]
    ELSE parts[1] \o sep \o Join(Tail(parts), sep)

\* s.replace(old, new): every non-overlapping occurrence, left to right
RECURSIVE Replace(_, _, _)
Replace(s, old, new) ==
    IF s = <<>> THEN <<>>
    ELSE IF StartsWith(s, old)
         THEN new \o Replace(SubSeq(s, Len(old) + 1, Len(s)), old, new)
         ELSE <<Head(s)>> \o Replace(Tail(s), old, new)

\* urllib.parse.quote(s, safe=''): of the characters the model's keys are
\* made of, letters, digits, '-' and '.' are unreserved; '/' is escaped.
RECURSIVE Quote(_)
Quote(s) ==
    IF s = <<>> THEN <<>>
    ELSE (IF Head(s) = "/" THEN <<"%", "2", "F">> ELSE <<Head(s)>>)
         \o Quote(Tail(s))

(***************************************************************************)
(* _parse_blob_path                                                        *)
(***************************************************************************)

\* os.getenv("AZURE_STORAGE_PREFIX", "").strip("/")
StoragePrefix(e) == Strip(e.prefix, "/")

\* lines 78-79: the first 10 characters, when there are that many
DatePrefix(date_part) ==
    IF Len(date_part) >= 10 THEN Take(date_part, 10) ELSE NoStr

\* lines 73-81
DateStrOf(filename) ==
    IF EndsWith(filename, DotZip)
    THEN DatePrefix(Replace(filename, DotZip, <<>>))
    ELSE NoStr

\* lines 83-89
ParsedKey(org, project, repo, filename, blob_name) ==
    [org |-> org, project |-> project, repo |-> repo,
     date_str |-> DateStrOf(filename), blob_name |-> blob_name]

\* lines 66-70: repo, filename = repo_with_date.rsplit("/", 1)
SplitRepoAndFile(org, project, repo_with_date, blob_name) ==
    IF Find(repo_with_date, "/") > 0
    THEN ParsedKey(org, project,
                   SubSeq(repo_with_date, 1, RFind(repo_with_date, "/") - 1),
                   SubSeq(repo_with_date, RFind(repo_with_date, "/") + 1,
                          Len(repo_with_date)),
                   blob_name)
    ELSE ParsedKey(org, project, repo_with_date, <<>>, blob_name)

\* lines 58-63
ParseSegments(parts, blob_name) ==
    IF Len(parts) < 3 THEN NoneVal
    ELSE SplitRepoAndFile(parts[1], parts[2],
                          Join(SubSeq(parts, 3, Len(parts)), Slash), blob_name)

\* lines 50-56: the first segment is dropped when it equals the prefix
SkipPrefix(parts, prefix, blob_name) ==
    IF Len(parts) < 4 THEN NoneVal
    ELSE ParseSegments(IF prefix # <<>> /\ parts[1] = prefix
                       THEN Tail(parts) ELSE parts,
                       blob_name)

_parse_blob_path(blob_name, e) ==
    SkipPrefix(Split(Strip(blob_name, "/"), "/"), StoragePrefix(e), blob_name)

(***************************************************************************)
(* datetime                                                                *)
(*                                                                         *)
(* A datetime is a record of its fields; tz is "utc" for the aware values  *)
(* the storage SDK returns in last_modified and "naive" for utcnow() and   *)
(* fromisoformat of a bare date.  Instants of the object store and of the  *)
(* clock are counted in microseconds after 2025-03-02T09:00:00 UTC.        *)
(***************************************************************************)
Digits == <<"0", "1", "2", "3", "4", "5", "6", "7", "8", "9">>

IsDigit(c) == \E i \in 1..10 : Digits[i] = c

DigitVal(c) == (CHOOSE i \in 1..10 : Digits[i] = c) - 1

\* n printed in exactly w decimal digits (format spec 0wd)
RECURSIVE Pad(_, _)
Pad(n, w) ==
    IF w = 0 THEN <<>> ELSE Pad(n \div 10, w - 1) \o <<Digits[(n % 10) + 1]>>

\* int() of a string of digits
RECURSIVE ToInt(_)
ToInt(s) ==
    IF s = <<>> THEN 0
    ELSE 10 * ToInt(SubSeq(s, 1, Len(s) - 1)) + DigitVal(s[Len(s)])

AllDigits(s) == \A i \in 1..Len(s) : IsDigit(s[i])

IsLeap(y) == (y % 4 = 0 /\ y % 100 # 0) \/ y % 400 = 0

DaysIn(y, m) ==
    IF m = 2 THEN (IF IsLeap(y) THEN 29 ELSE 28)
    ELSE IF m \in {4, 6, 9, 11} THEN 30 ELSE 31

DateTimeAt(t, tz) ==
    [year |-> 2025, month |-> 3, day |-> 2, hour |-> 9, minute |-> 0,
     second |-> t \div 1000000, microsecond |-> t % 1000000, tz |-> tz]

\* datetime + timedelta(hours=h), for the hours the model's clock takes
AddHours(dt, h) == [dt EXCEPT !.hour = @ + h]

\* datetime.isoformat(): the fraction is printed only when microsecond is
\* not 0, the offset only for an aware value
isoformat(dt) ==
    Pad(dt.year, 4) \o Dash \o Pad(dt.month, 2) \o Dash \o Pad(dt.day, 2)
    \o <<"T">> \o Pad(dt.hour, 2) \o <<":">> \o Pad(dt.minute, 2)
    \o <<":">> \o Pad(dt.second, 2)
    \o (IF dt.microsecond # 0 THEN <<".">> \o Pad(dt.microsecond, 6) ELSE <<>>)
    \o (IF dt.tz = "utc" THEN <<"+", "0", "0", ":", "0", "0">> ELSE <<>>)

\* datetime.fromisoformat(s) succeeds on a 10-character s: the extended
\* calendar form YYYY-MM-DD with a month and a day that exist (the week
\* form YYYY-Www-D, which newer interpreters also read, is in no key here)
IsIsoDate(s) ==
    /\ Len(s) = 10
    /\ s[5] = "-" /\ s[8] = "-"
    /\ AllDigits(SubSeq(s, 1, 4)) /\ AllDigits(SubSeq(s, 6, 7))
    /\ AllDigits(SubSeq(s, 9, 10))
    /\ ToInt(SubSeq(s, 1, 4)) >= 1
    /\ ToInt(SubSeq(s, 6, 7)) \in 1..12
    /\ ToInt(SubSeq(s, 9, 10)) \in
           1..DaysIn(ToInt(SubSeq(s, 1, 4)), ToInt(SubSeq(s, 6, 7)))

fromisoformat(s) ==
    [year |-> ToInt(SubSeq(s, 1, 4)), month |-> ToInt(SubSeq(s, 6, 7)),
     day |-> ToInt(SubSeq(s, 9, 10)), hour |-> 0, minute |-> 0,
     second |-> 0, microsecond |-> 0, tz |-> "naive"]

DtTuple(dt) ==
    <<dt.year, dt.month, dt.day, dt.hour, dt.minute, dt.second, dt.microsecond>>

\* lexicographic a > b on equally long tuples of integers
RECURSIVE TupleGt(_, _)
TupleGt(a, b) ==
    IF a = <<>> THEN FALSE
    ELSE IF Head(a) # Head(b) THEN Head(a) > Head(b)
    ELSE TupleGt(Tail(a), Tail(b))

\* datetime a > datetime b (both naive or both aware)
DtGt(a, b) == TupleGt(DtTuple(a), DtTuple(b))

\* ord(c) for the characters of a timestamp
Ord(c) ==
    CASE c = "+" -> 43
      [] c = "-" -> 45
      [] c = "." -> 46
      [] IsDigit(c) -> 48 + DigitVal(c)
      [] c = ":" -> 58
      [] c = "T" -> 84
      [] c = "Z" -> 90

\* str a < str b: code points compared left to right, a proper prefix first
RECURSIVE StrLt(_, _)
StrLt(a, b) ==
    IF b = <<>> THEN FALSE
    ELSE IF a = <<>> THEN TRUE
    ELSE IF Head(a) # Head(b) THEN Ord(Head(a)) < Ord(Head(b))
    ELSE StrLt(Tail(a), Tail(b))

(***************************************************************************)
(* The object store and its client                                         *)
(***************************************************************************)

\* os.getenv("AZURE_STORAGE_CONTAINER", "git-backups"), left at its default
ContainerName == <<"g", "i", "t", "-", "b", "a", "c", "k", "u", "p", "s">>

\* dict(part.split('=', 1) for part in connection_string.split(';')
\*      if '=' in part).get(key, '')
RECURSIVE ConnGet(_, _)
ConnGet(parts, key) ==
    IF parts = <<>> THEN <<>>
    ELSE LET part == parts[Len(parts)]
             kv == SplitMax(part, "=", 1)
         IN  IF Find(part, "=") > 0 /\ kv[1] = key THEN kv[2]
             ELSE ConnGet(SubSeq(parts, 1, Len(parts) - 1), key)

AccountNameKey == <<"A", "c", "c", "o", "u", "n", "t", "N", "a", "m", "e">>
AccountKeyKey == <<"A", "c", "c", "o", "u", "n", "t", "K", "e", "y">>
SasKey == <<"S", "h", "a", "r", "e", "d", "A", "c", "c", "e", "s", "s",
            "S", "i", "g", "n", "a", "t", "u", "r", "e">>

\* BlobServiceClient.from_connection_string accepts conn: every
\* ';'-separated setting is key=value, and an account key or a shared
\* access signature is among them; otherwise it raises ValueError
ConnAccepted(conn) ==
    LET parts == Split(RStrip(conn, ";"), ";")
    IN  /\ \A i \in 1..Len(parts) : Find(parts[i], "=") > 0
        /\ \/ ConnGet(parts, AccountKeyKey) # <<>>
           \/ ConnGet(parts, SasKey) # <<>>

\* _get_storage_client(): exc when the SDK constructor raises, else the
\* client (val) or None
_get_storage_client(e) ==
    IF e.conn # <<>>
    THEN IF ConnAccepted(e.conn)
         THEN [exc |-> FALSE,
               val |-> [account_url |-> ConnGet(Split(e.conn, ";"), AccountNameKey)]]
         ELSE [exc |-> TRUE, val |-> NoneVal]
    ELSE IF e.account # <<>>
    THEN [exc |-> FALSE, val |-> [account_url |-> e.account]]
    ELSE [exc |-> FALSE, val |-> NoneVal]

\* the record of one listing request sent to the object store
StoreCall == [to |-> "object_store", op |-> "list_blobs"]

\* container_client.list_blobs(name_starts_with=p)
list_blobs(cont, p) == SelectSeq(cont, LAMBDA b : StartsWith(b.name, p))

(***************************************************************************)
(* list_repositories                                                       *)
(***************************************************************************)
RepoId(parsed) == parsed.org \o Dash \o parsed.project \o Dash \o parsed.repo

\* index of the summary with this id in the insertion-ordered repos_map,
\* 0 when there is none
RECURSIVE MapIndex(_, _, _)
MapIndex(repos_map, id, i) ==
    IF i > Len(repos_map) THEN 0
    ELSE IF repos_map[i].id = id THEN i
    ELSE MapIndex(repos_map, id, i + 1)

\* UpdateLastBackup with the date comparison dropped: the date seen last
\* wins
UpdateLastBackup_last_seen(repos_map, i, date_str) ==
    IF date_str # NoStr /\ IsIsoDate(date_str)
    THEN [repos_map EXCEPT ![i].last_backup =
              isoformat(fromisoformat(date_str)) \o <<"Z">>]
    ELSE repos_map

\* lines 181-187: last_backup moves to a later calendar date; a date_str
\* that fromisoformat rejects is skipped by the except clause
UpdateLastBackup(repos_map, i, date_str) ==
    IF date_str # NoStr /\ IsIsoDate(date_str)
       /\ (repos_map[i].last_backup = NoStr
           \/ DtGt(fromisoformat(date_str),
                   fromisoformat(Take(repos_map[i].last_backup, 10))))
    THEN [repos_map EXCEPT ![i].last_backup =
              isoformat(fromisoformat(date_str)) \o <<"Z">>]
    ELSE repos_map

\* line 180: repos_map[repo_id]["backup_count"] += 1, then the date
CountBackup(repos_map, i, parsed) ==
    UpdateLastBackup([repos_map EXCEPT ![i].backup_count = @ + 1], i,
                     parsed.date_str)

\* lines 170-178: a repository seen for the first time gets an empty summary
EnsureSummary(repos_map, repo_id, parsed) ==
    IF MapIndex(repos_map, repo_id, 1) = 0
    THEN Append(repos_map,
                [id |-> repo_id, org |-> parsed.org, project |-> parsed.project,
                 repo |-> parsed.repo, backup_count |-> 0, last_backup |-> NoStr])
    ELSE repos_map

AddParsed(repos_map, repo_id, parsed) ==
    CountBackup(repos_map, MapIndex(repos_map, repo_id, 1), parsed)

CatalogParsed(repos_map, parsed) ==
    IF parsed = NoneVal THEN repos_map
    ELSE AddParsed(EnsureSummary(repos_map, RepoId(parsed), parsed),
                   RepoId(parsed), parsed)

\* the body of the for loop for one blob
CatalogStep(repos_map, blob, e) ==
    IF ~EndsWith(blob.name, DotZip) THEN repos_map
    ELSE CatalogParsed(repos_map, _parse_blob_path(blob.name, e))

RECURSIVE CatalogFold(_, _, _)
CatalogFold(repos_map, blobs, e) ==
    IF blobs = <<>> THEN repos_map
    ELSE CatalogFold(CatalogStep(repos_map, Head(blobs), e), Tail(blobs), e)

\* list_repositories(); store_up is whether the listing call succeeds
list_repositories(e, cont, store_up) ==
    LET client == _get_storage_client(e)
        prefix == IF StoragePrefix(e) # <<>> THEN StoragePrefix(e) \o Slash ELSE <<>>
    IN  IF client.exc THEN [exc |-> TRUE, val |-> <<>>, net |-> <<>>]
        ELSE IF client.val = NoneVal THEN [exc |-> FALSE, val |-> <<>>, net |-> <<>>]
        ELSE IF ~store_up
        THEN [exc |-> FALSE, val |-> <<>>, net |-> <<StoreCall>>]
        ELSE [exc |-> FALSE,
              val |-> CatalogFold(<<>>, list_blobs(cont, prefix), e),
              net |-> <<StoreCall>>]

(***************************************************************************)
(* list_backup_versions                                                    *)
(***************************************************************************)

\* str(x) inside an f-string, for a str or None
FStr(x) == IF x = NoStr THEN NoneStr ELSE x

\* parsed.get('date_str', blob.name): the default is taken only when the
\* key is missing from the dict
ParsedGetDateStr(parsed, default) ==
    IF "date_str" \in DOMAIN parsed THEN parsed.date_str ELSE default

\* round(size / 1048576, 2), counted in hundredths of a megabyte; round
\* takes an exact half to the even neighbour
SizeMb(size) ==
    IF 2 * ((size * 100) % 1048576) > 1048576
       \/ (2 * ((size * 100) % 1048576) = 1048576
           /\ ((size * 100) \div 1048576) % 2 = 1)
    THEN ((size * 100) \div 1048576) + 1
    ELSE (size * 100) \div 1048576

\* the dict appended for one blob; now is what utcnow() reads
\* (retention_expires, which no operation reads back, is left out)
VersionOf(repo_id, blob, parsed, now) ==
    [id |-> repo_id \o Dash \o FStr(ParsedGetDateStr(parsed, blob.name)),
     timestamp |-> IF blob.last_modified # NoneVal
                   THEN isoformat(blob.last_modified)
                   ELSE isoformat(DateTimeAt(now, "naive")) \o <<"Z">>,
     size_bytes |-> blob.size,
     size_mb |-> SizeMb(blob.size),
     blob_path |-> blob.name]

\* the for loop: the i-th listed blob is reached at now + (i - 1) * dt
RECURSIVE CollectVersions(_, _, _, _, _)
CollectVersions(repo_id, blobs, e, now, dt) ==
    IF blobs = <<>> THEN <<>>
    ELSE
    LET blob == Head(blobs)
        rest == CollectVersions(repo_id, Tail(blobs), e, now + dt, dt)
        parsed == _parse_blob_path(blob.name, e)
    IN  IF ~EndsWith(blob.name, DotZip) \/ parsed = NoneVal THEN rest
        ELSE <<VersionOf(repo_id, blob, parsed, now)>> \o rest

\* v goes after every element whose key is not smaller than its own
RECURSIVE InsertDesc(_, _)
InsertDesc(sorted, v) ==
    IF sorted = <<>> THEN <<v>>
    ELSE IF StrLt(Head(sorted).timestamp, v.timestamp) THEN <<v>> \o sorted
    ELSE <<Head(sorted)>> \o InsertDesc(Tail(sorted), v)

\* versions.sort(key=lambda x: x["timestamp"], reverse=True): a stable sort
\* on the timestamp strings
RECURSIVE SortByTimestampDesc(_)
SortByTimestampDesc(versions) ==
    IF versions = <<>> THEN <<>>
    ELSE InsertDesc(SortByTimestampDesc(SubSeq(versions, 1, Len(versions) - 1)),
                    versions[Len(versions)])

list_backup_versions(repo_id, e, cont, store_up, now, dt) ==
    LET client == _get_storage_client(e)
        parts == SplitMax(repo_id, "-", 2)
        prefix == StoragePrefix(e)
    IN  IF client.exc THEN [exc |-> TRUE, val |-> <<>>, net |-> <<>>]
        ELSE IF client.val = NoneVal \/ Len(parts) < 3
        THEN [exc |-> FALSE, val |-> <<>>, net |-> <<>>]
        ELSE
        LET path == parts[1] \o Slash \o parts[2] \o Slash \o parts[3] \o Slash
            blob_prefix == IF prefix # <<>> THEN prefix \o Slash \o path ELSE path
        IN  IF ~store_up
            THEN [exc |-> FALSE, val |-> <<>>, net |-> <<StoreCall>>]
            ELSE [exc |-> FALSE,
                  val |-> SortByTimestampDesc(
                              CollectVersions(repo_id, list_blobs(cont, blob_prefix),
                                              e, now, dt)),
                  net |-> <<StoreCall>>]

(***************************************************************************)
(* get_download_link                                                       *)
(***************************************************************************)

\* next((v for v in versions if v["id"] == backup_id), None)
RECURSIVE FirstWithId(_, _)
FirstWithId(versions, backup_id) ==
    IF versions = <<>> THEN NoneVal
    ELSE IF Head(versions).id = backup_id THEN Head(versions)
    ELSE FirstWithId(Tail(versions), backup_id)

\* the account key signs: its base64 text decodes (generate_blob_sas
\* raises on text of a length that is no multiple of 4)
KeyDecodes(account_key) == Len(account_key) % 4 = 0

\* f"{account_url}/{container_name}/{quote(blob_path, safe='')}"
PlainUrl(client, blob_path) ==
    [kind |-> "plain", account_url |-> client.account_url,
     container |-> ContainerName, path |-> Quote(blob_path)]

\* f"{blob_client.url}?{sas_token}": the token grants permission on one
\* blob of one container until expiry
SasUrl(client, account_name, account_key, blob_path, expiry) ==
    [kind |-> "sas", account_url |-> client.account_url,
     container |-> ContainerName, path |-> blob_path,
     token |-> [account_name |-> account_name, container_name |-> ContainerName,
                blob_name |-> blob_path, account_key |-> account_key,
                permission |-> "r", expiry |-> expiry]]

\* SignedOrPlain with the expiry a day away instead of an hour
SignedOrPlain_day(client, conn, blob_path, now) ==
    IF conn # <<>> /\ ConnGet(Split(conn, ";"), AccountKeyKey) # <<>>
       /\ KeyDecodes(ConnGet(Split(conn, ";"), AccountKeyKey))
    THEN SasUrl(client, ConnGet(Split(conn, ";"), AccountNameKey),
                ConnGet(Split(conn, ";"), AccountKeyKey), blob_path,
                AddHours(DateTimeAt(now, "naive"), 24))
    ELSE PlainUrl(client, blob_path)

\* lines 271-307: the signed URL when the connection string carries an
\* account key that signs; the plain URL when there is no key (line 302)
\* and when signing raises (line 307)
SignedOrPlain(client, conn, blob_path, now) ==
    IF conn # <<>> /\ ConnGet(Split(conn, ";"), AccountKeyKey) # <<>>
    THEN IF KeyDecodes(ConnGet(Split(conn, ";"), AccountKeyKey))
         THEN SasUrl(client, ConnGet(Split(conn, ";"), AccountNameKey),
                     ConnGet(Split(conn, ";"), AccountKeyKey), blob_path,
                     AddHours(DateTimeAt(now, "naive"), 1))
         ELSE PlainUrl(client, blob_path)
    ELSE PlainUrl(client, blob_path)

\* lines 261-267 and the try block, given the client and the versions
LinkForBackup(client, versions, backup, e, sign_now) ==
    IF versions.exc THEN [exc |-> TRUE, val |-> NoneVal, net |-> versions.net]
    ELSE IF backup = NoneVal \/ backup.blob_path = <<>>
    THEN [exc |-> FALSE, val |-> NoneVal, net |-> versions.net]
    ELSE [exc |-> FALSE,
          val |-> SignedOrPlain(client, e.conn, backup.blob_path, sign_now),
          net |-> versions.net]

LinkWithVersions(client, versions, backup_id, e, sign_now) ==
    LinkForBackup(client, versions,
                  IF versions.exc THEN NoneVal
                  ELSE FirstWithId(versions.val, backup_id),
                  e, sign_now)

\* the instant utcnow() reads after the listing loop
SignTime(cont, now, dt) == now + dt * Len(cont)

LinkWithClient(client, repo_id, backup_id, e, cont, store_up, now, dt) ==
    IF client.exc THEN [exc |-> TRUE, val |-> NoneVal, net |-> <<>>]
    ELSE IF client.val = NoneVal THEN [exc |-> FALSE, val |-> NoneVal, net |-> <<>>]
    ELSE LinkWithVersions(client.val,
                          list_backup_versions(repo_id, e, cont, store_up, now, dt),
                          backup_id, e, SignTime(cont, now, dt))

get_download_link(repo_id, backup_id, e, cont, store_up, now, dt) ==
    LinkWithClient(_get_storage_client(e), repo_id, backup_id, e, cont,
                   store_up, now, dt)

(***************************************************************************)
(* get_restore_preview                                                     *)
(***************************************************************************)

\* lines 396-413, given the version found for backup_id
PreviewForBackup(backup, parts, net0) ==
    [exc |-> FALSE,
     val |-> IF backup = NoneVal THEN [error |-> "Backup not found"]
             ELSE IF Len(parts) < 3 THEN [error |-> "Invalid repository ID"]
             ELSE [source_org |-> parts[1], source_project |-> parts[2],
                   source_repo |-> parts[3],
                   backup_timestamp |-> backup.timestamp,
                   backup_size_mb |-> backup.size_mb,
                   suggested_target_repo_name |-> parts[3]],
     net |-> net0]

PreviewWithVersions(versions, repo_id, backup_id) ==
    IF versions.exc THEN [exc |-> TRUE, val |-> NoneVal, net |-> versions.net]
    ELSE PreviewForBackup(FirstWithId(versions.val, backup_id),
                          SplitMax(repo_id, "-", 2), versions.net)

get_restore_preview(repo_id, backup_id, e, cont, store_up, now, dt) ==
    PreviewWithVersions(list_backup_versions(repo_id, e, cont, store_up, now, dt),
                        repo_id, backup_id)

(***************************************************************************)
(* restore_to_azure_devops                                                 *)
(*                                                                         *)
(* The destination host is described by how it treats one request:         *)
(*   transport  "ok", "refused" (requests raises before the request is     *)
(*              delivered) or "timeout" (the request is delivered and      *)
(*              processed, no response arrives within the 30 s)            *)
(*   answer     "accept", "reject" (401) or "fail" (500)                   *)
(*   body       "object" (a JSON object), "list" (JSON, not an object) or  *)
(*              "text" (not JSON)                                          *)
(* An accepted request for a name that exists in the project is answered   *)
(* 409, for a new name 201, and the repository then exists.                *)
(***************************************************************************)
HostStatus(host, exists) ==
    IF host.answer = "reject" THEN 401
    ELSE IF host.answer = "fail" THEN 500
    ELSE IF exists THEN 409
    ELSE 201

Delivered(host) == host.transport # "refused"

CreateCall(host, exists) ==
    [to |-> "destination_host", op |-> "create_repository",
     delivered |-> Delivered(host),
     answered |-> host.transport = "ok",
     status |-> HostStatus(host, exists),
     created |-> Delivered(host) /\ HostStatus(host, exists) = 201]

\* an f-string message: its text and the str values put into it (a cause
\* reported by the host or by requests is the one-element <<cause>>)
ErrorOutcome(fmt, args) ==
    [status |-> "error", message |-> [fmt |-> fmt, args |-> args]]

DefaultRepoUrl(target) ==
    [host |-> "dev.azure.com", org |-> target.org, project |-> target.project,
     name |-> target.name]

\* HandleResponse without the 409 branch
HandleResponse_no_conflict(host, status, target, download_url) ==
    IF status \notin {200, 201}
    THEN ErrorOutcome("Failed to create repository: {}", <<<<host.answer>>>>)
    ELSE IF host.body # "object"
    THEN ErrorOutcome("Restore failed: {}", <<<<host.body>>>>)
    ELSE [status |-> "success",
          message |-> [fmt |-> "Repository {} created. Import backup manually or implement import API.",
                       args |-> <<target.name>>],
          repo_url |-> DefaultRepoUrl(target),
          repo_id |-> <<"i", "d">>,
          download_url |-> download_url]

\* lines 360-389, once create_response is there
HandleResponse(host, status, target, download_url) ==
    IF status \notin {200, 201}
    THEN IF status = 409
         THEN ErrorOutcome("Repository {} already exists in {}",
                           <<target.name, target.project>>)
         ELSE ErrorOutcome("Failed to create repository: {}", <<<<host.answer>>>>)
    ELSE IF host.body # "object"
    THEN \* create_response.json() or repo_data.get raises
         ErrorOutcome("Restore failed: {}", <<<<host.body>>>>)
    ELSE [status |-> "success",
          message |-> [fmt |-> "Repository {} created. Import backup manually or implement import API.",
                       args |-> <<target.name>>],
          repo_url |-> DefaultRepoUrl(target),
          repo_id |-> <<"i", "d">>,
          download_url |-> download_url]

\* CreateRepository with the request sent again when no response arrives
CreateRepository_resend(host, target, exists, download_url, net0) ==
    [exc |-> FALSE,
     val |-> IF host.transport # "ok"
             THEN ErrorOutcome("Restore failed: {}", <<<<host.transport>>>>)
             ELSE HandleResponse(host, HostStatus(host, exists), target, download_url),
     net |-> IF host.transport # "ok"
             THEN net0 \o <<CreateCall(host, exists), CreateCall(host, exists)>>
             ELSE Append(net0, CreateCall(host, exists))]

\* lines 345-389: the try block; requests.post (line 359) is the one request
\* and is outside any loop
CreateRepository(host, target, exists, download_url, net0) ==
    [exc |-> FALSE,
     val |-> IF host.transport # "ok"
             THEN ErrorOutcome("Restore failed: {}", <<<<host.transport>>>>)
             ELSE HandleResponse(host, HostStatus(host, exists), target, download_url),
     net |-> Append(net0, CreateCall(host, exists))]

\* lines 331-343, given what get_download_link returned
RestoreWithLink(link, e, target, exists, host) ==
    IF link.exc THEN [exc |-> TRUE, val |-> NoneVal, net |-> link.net]
    ELSE IF link.val = NoneVal
    THEN [exc |-> FALSE,
          val |-> ErrorOutcome("Failed to generate download link for backup", <<>>),
          net |-> link.net]
    ELSE IF e.pat = <<>>
    THEN [exc |-> FALSE,
          val |-> ErrorOutcome("Azure DevOps PAT not configured. Set AZURE_DEVOPS_PAT environment variable.", <<>>),
          net |-> link.net]
    ELSE CreateRepository(host, target, exists, link.val, link.net)

restore_to_azure_devops(repo_id, backup_id, target, e, cont, store_up, now, dt, dest, host) ==
    RestoreWithLink(get_download_link(repo_id, backup_id, e, cont, store_up, now, dt),
                    e, target, <<target.org, target.project, target.name>> \in dest,
                    host)

(***************************************************************************)
(* Inputs: the settings, object keys, blobs and instants that are drawn    *)
(***************************************************************************)
MaxBlobs == 2

SegAc == <<"a", "c">>
SegAB == <<"a", "-", "b">>
SegPx == <<"p", "x">>
SegSv == <<"s", "v">>
SegSV == <<"s", "-", "v">>
SegX  == <<"x">>
SegBk == <<"b", "k">>
SegAdo == <<"a", "d", "o">>
Date1 == <<"2", "0", "2", "5", "-", "0", "3", "-", "0", "1">>
Date2 == <<"2", "0", "2", "5", "-", "0", "3", "-", "0", "2">>
Date3 == <<"2", "0", "2", "4", "-", "1", "2", "-", "3", "1">>
T0900 == <<"-", "0", "9", "0", "0">>
T1800 == <<"-", "1", "8", "0", "0">>

Path(segments) == Join(segments, Slash)

\* {prefix}/org/project/repo/YYYY-MM-DD-HHMM.zip for a raw prefix setting
WellFormedKey(raw_prefix, org, project, repo, date, hhmm) ==
    LET prefix == Strip(raw_prefix, "/")
        tail == Path(<<org, project, repo, date \o hhmm \o DotZip>>)
    IN  IF prefix # <<>> THEN prefix \o Slash \o tail ELSE tail

K1 == WellFormedKey(<<>>, SegAc, SegPx, SegSv, Date1, T0900)
K2 == WellFormedKey(<<>>, SegAc, SegPx, SegSv, Date2, T0900)
K3 == WellFormedKey(<<>>, SegAc, SegPx, SegSv, Date1, T1800)
K4 == Path(<<SegAc, SegPx, SegSv, <<"a">> \o DotZip>>)
K5 == Path(<<SegAc, SegPx, SegSv,
             <<"b", "a", "c", "k", "u", "p", "-", "2", "0", "2", "5">> \o DotZip>>)
K6 == WellFormedKey(<<>>, SegAc, SegPx, Path(<<SegSv, SegX>>), Date3, T0900)
K7 == WellFormedKey(<<>>, SegAB, SegPx, SegSv, Date1, T0900)
K8 == WellFormedKey(SegBk, SegAc, SegPx, SegSv, Date2, T0900)
K9 == Path(<<SegAc, SegPx, Date1 \o T0900 \o DotZip>>)
K10 == Path(<<SegAc, SegPx, SegSv,
              <<"r", "e", "a", "d", "m", "e", ".", "t", "x", "t">>>>)

CatalogNames == {K1, K2, K3, K4, K5, K6, K7, K8, K9, K10}
VersionNames == {K1, K2, K3, K4, K6}

\* AZURE_STORAGE_PREFIX settings: unset, one segment, one segment written
\* with slashes, two segments
RawPrefixes == {<<>>, SegBk, Slash \o SegBk \o Slash, Path(<<SegBk, SegAdo>>)}

ConnWithKey ==
    AccountNameKey \o <<"=", "s", "t", ";">> \o AccountKeyKey
    \o <<"=", "a", "2", "V", "5">>
ConnBadKey ==
    AccountNameKey \o <<"=", "s", "t", ";">> \o AccountKeyKey \o <<"=", "k">>
ConnSasOnly ==
    AccountNameKey \o <<"=", "s", "t", ";">> \o SasKey \o <<"=", "s", "v">>
ConnMalformed == <<"g", "a", "r", "b", "a", "g", "e">>

DefaultEnv ==
    [conn |-> ConnWithKey, account |-> <<>>, prefix |-> <<>>, pat |-> <<"p">>]

\* sampled instants, in microseconds after the base instant
Instants == {0, 1, 1000000}

Blob(name, t, size) ==
    [name |-> name,
     last_modified |-> IF t = -1 THEN NoneVal ELSE DateTimeAt(t, "utc"),
     size |-> size]

\* listings of at most n blobs with pairwise distinct names
Listings(blobs, n) ==
    UNION {{l \in [1..k -> blobs] :
               \A i, j \in 1..k : i < j => l[i].name # l[j].name} : k \in 0..n}

RepoIdAcPxSv == SegAc \o Dash \o SegPx \o Dash \o SegSv
RepoIds ==
    {RepoIdAcPxSv,
     SegAc \o Dash \o SegPx \o Dash \o Path(<<SegSv, SegX>>),
     SegAB \o Dash \o SegPx \o Dash \o SegSv,
     SegAc \o Dash \o SegPx}

\* names a caller may ask the destination repository to have
MaxTargets == 2
TargetNames == {<<"r">> \o Pad(i, 1) : i \in 1..MaxTargets}

\* how the destination host may treat a create-repository request
Hosts ==
    {[transport |-> "refused", answer |-> "accept", body |-> "object"],
     [transport |-> "timeout", answer |-> "accept", body |-> "object"],
     [transport |-> "ok", answer |-> "reject", body |-> "text"],
     [transport |-> "ok", answer |-> "fail", body |-> "text"],
     [transport |-> "ok", answer |-> "accept", body |-> "object"],
     [transport |-> "ok", answer |-> "accept", body |-> "list"],
     [transport |-> "ok", answer |-> "accept", body |-> "text"]}

Idle == [op |-> "none"]

(***************************************************************************)
(* Operations                                                              *)
(***************************************************************************)

\* _parse_blob_path on a well-formed key for the configured prefix
ParseWellFormed ==
    /\ call = Idle
    /\ \E org \in {SegAc, SegAB}, project \in {SegPx, SegBk}, repo \in {SegSv, SegSV},
       date \in {Date1, Date3}, hhmm \in {T0900, T1800} :
        LET key == WellFormedKey(env.prefix, org, project, repo, date, hhmm)
        IN  /\ call' = [op |-> "parse", key |-> key, well_formed |-> TRUE,
                        org |-> org, project |-> project, repo |-> repo,
                        date |-> date]
            /\ ret' = _parse_blob_path(key, env)
            /\ raised' = FALSE
            /\ net' = <<>>
            /\ UNCHANGED <<env, container, ado, clock>>

\* _parse_blob_path on any key of the store
ParseKey ==
    /\ call = Idle
    /\ \E key \in CatalogNames :
        /\ call' = [op |-> "parse", key |-> key, well_formed |-> FALSE]
        /\ ret' = _parse_blob_path(key, env)
        /\ raised' = FALSE
        /\ net' = <<>>
        /\ UNCHANGED <<env, container, ado, clock>>

ListRepositories ==
    /\ call = Idle
    /\ \E store_up \in BOOLEAN :
        LET r == list_repositories(env, container, store_up)
        IN  /\ call' = [op |-> "list_repositories", store_up |-> store_up]
            /\ ret' = r.val
            /\ raised' = r.exc
            /\ net' = r.net
            /\ UNCHANGED <<env, container, ado, clock>>

ListVersions ==
    /\ call = Idle
    /\ \E repo_id \in RepoIds, store_up \in BOOLEAN, dt \in {0, 1} :
        LET r == list_backup_versions(repo_id, env, container, store_up, clock, dt)
        IN  /\ call' = [op |-> "list_backup_versions", repo_id |-> repo_id,
                        store_up |-> store_up, dt |-> dt]
            /\ ret' = r.val
            /\ raised' = r.exc
            /\ net' = r.net
            /\ UNCHANGED <<env, container, ado, clock>>

\* the versions a caller has seen listed, and one id that was never listed
BackupIds ==
    {RepoIdAcPxSv \o Dash \o Date1, RepoIdAcPxSv \o Dash \o Date2,
     RepoIdAcPxSv \o Dash \o NoneStr, RepoIdAcPxSv \o Dash \o <<"x">>}

GetDownloadLink ==
    /\ call = Idle
    /\ \E repo_id \in {RepoIdAcPxSv, SegAc \o Dash \o SegPx},
          backup_id \in BackupIds, store_up \in BOOLEAN, dt \in {0, 1} :
        LET r == get_download_link(repo_id, backup_id, env, container, store_up,
                                   clock, dt)
        IN  /\ call' = [op |-> "get_download_link", repo_id |-> repo_id,
                        backup_id |-> backup_id, store_up |-> store_up,
                        sign_now |-> SignTime(container, clock, dt)]
            /\ ret' = r.val
            /\ raised' = r.exc
            /\ net' = r.net
            /\ UNCHANGED <<env, container, ado, clock>>

PreviewRestore ==
    /\ call = Idle
    /\ \E repo_id \in {RepoIdAcPxSv, SegAc \o Dash \o SegPx},
          backup_id \in BackupIds, store_up \in BOOLEAN, dt \in {0, 1} :
        LET r == get_restore_preview(repo_id, backup_id, env, container,
                                     store_up, clock, dt)
        IN  /\ call' = [op |-> "get_restore_preview", repo_id |-> repo_id,
                        backup_id |-> backup_id, store_up |-> store_up,
                        dt |-> dt]
            /\ ret' = r.val
            /\ raised' = r.exc
            /\ net' = r.net
            /\ UNCHANGED <<env, container, ado, clock>>

Restore ==
    /\ call = Idle
    /\ \E repo_id \in {RepoIdAcPxSv},
          backup_id \in {RepoIdAcPxSv \o Dash \o Date1, RepoIdAcPxSv \o Dash \o <<"x">>},
          store_up \in BOOLEAN, name \in TargetNames, host \in Hosts :
        LET target == [org |-> SegAc, project |-> SegPx, name |-> name]
            r == restore_to_azure_devops(repo_id, backup_id, target, env,
                                         container, store_up, clock, 0, ado, host)
        IN  /\ call' = [op |-> "restore", repo_id |-> repo_id,
                        backup_id |-> backup_id, store_up |-> store_up,
                        target |-> target, host |-> host,
                        existed |-> <<target.org, target.project, target.name>> \in ado]
            /\ ret' = r.val
            /\ raised' = r.exc
            /\ net' = r.net
            /\ ado' = IF \E i \in 1..Len(r.net) :
                              r.net[i].to = "destination_host" /\ r.net[i].created
                       THEN ado \cup {<<target.org, target.project, target.name>>}
                       ELSE ado
            /\ UNCHANGED <<env, container, clock>>

\* the view hands the result to the caller (return Response(...)); the
\* service keeps nothing of the request
Respond ==
    /\ call # Idle
    /\ call' = Idle
    /\ ret' = NoneVal
    /\ raised' = FALSE
    /\ net' = <<>>
    /\ UNCHANGED <<env, container, ado, clock>>

(***************************************************************************)
(* Specifications                                                          *)
(***************************************************************************)
InitParse ==
    /\ env \in {[DefaultEnv EXCEPT !.prefix = p] : p \in RawPrefixes}
    /\ container = <<>>
    /\ ado = {}
    /\ clock = 0
    /\ call = Idle
    /\ ret = NoneVal
    /\ raised = FALSE
    /\ net = <<>>

NextParse == ParseWellFormed \/ ParseKey \/ Respond

SpecParse == InitParse /\ [][NextParse]_vars

InitCatalog ==
    /\ env \in {[DefaultEnv EXCEPT !.prefix = p] : p \in {<<>>, SegBk}}
    /\ container \in Listings({Blob(n, 0, 1048576) : n \in CatalogNames}, MaxBlobs)
    /\ ado = {}
    /\ clock = 1000000
    /\ call = Idle
    /\ ret = NoneVal
    /\ raised = FALSE
    /\ net = <<>>

NextCatalog == ListRepositories \/ ListVersions \/ Respond

SpecCatalog == InitCatalog /\ [][NextCatalog]_vars

InitVersions ==
    /\ env = DefaultEnv
    /\ clock \in Instants
    /\ container \in Listings({Blob(n, t, 1048576) :
                                  n \in VersionNames,
                                  t \in {-1} \cup {i \in Instants : i <= clock}},
                              MaxBlobs)
    /\ ado = {}
    /\ call = Idle
    /\ ret = NoneVal
    /\ raised = FALSE
    /\ net = <<>>

NextVersions == ListVersions \/ PreviewRestore \/ Respond

SpecVersions == InitVersions /\ [][NextVersions]_vars

\* the settings of a deployment: a connection string (with a key that
\* signs, with one that does not, without a key, malformed) or none, with or
\* without a storage account name and a destination-host token
Init ==
    /\ env \in [conn : {<<>>, ConnWithKey, ConnBadKey, ConnSasOnly, ConnMalformed},
                account : {<<>>, <<"s", "t">>},
                prefix : {<<>>},
                pat : {<<>>, <<"p">>}]
    /\ container \in {<<>>, <<Blob(K1, 0, 1048576), Blob(K2, 1, 1048576)>>,
                      <<Blob(K4, 0, 1048576), Blob(K1, -1, 0)>>}
    /\ ado = {}
    /\ clock = 1000000
    /\ call = Idle
    /\ ret = NoneVal
    /\ raised = FALSE
    /\ net = <<>>

Next == GetDownloadLink \/ Restore \/ Respond

Spec == Init /\ [][Next]_vars

(***************************************************************************)
(* Claims                                                                  *)
(***************************************************************************)

\* the instant a timestamp string denotes, as <<year, ..., microsecond>>;
\* both the "+00:00" and the "Z" form are UTC
InstantOf(ts) ==
    <<ToInt(SubSeq(ts, 1, 4)), ToInt(SubSeq(ts, 6, 7)), ToInt(SubSeq(ts, 9, 10)),
      ToInt(SubSeq(ts, 12, 13)), ToInt(SubSeq(ts, 15, 16)),
      ToInt(SubSeq(ts, 18, 19)),
      IF Len(ts) >= 26 /\ ts[20] = "." THEN ToInt(SubSeq(ts, 21, 26)) ELSE 0>>

\* position of the blob named n in the container's listing
ListingIndex(n) == CHOOSE i \in 1..Len(container) : container[i].name = n

\* C6: every version returned by list_backup_versions has the id
\* "<repo_id>-<date_str>" when its key parses with a date_str, and
\* "<repo_id>-<blob name>" when the date_str is None.
C6_VersionIdFromDateOrKey ==
    call.op = "list_backup_versions" =>
        \A i \in 1..Len(ret) :
            ret[i].id =
                call.repo_id \o Dash
                \o (IF _parse_blob_path(ret[i].blob_path, env).date_str # NoStr
                    THEN _parse_blob_path(ret[i].blob_path, env).date_str
                    ELSE ret[i].blob_path)

\* C7: the versions returned by list_backup_versions are in non-increasing
\* order of the instants their timestamps denote, and versions of the same
\* instant are in the order of the listing.
C7_SortedByInstantStable ==
    call.op = "list_backup_versions" =>
        \A i, j \in 1..Len(ret) :
            i < j =>
                /\ ~TupleGt(InstantOf(ret[j].timestamp), InstantOf(ret[i].timestamp))
                /\ InstantOf(ret[i].timestamp) = InstantOf(ret[j].timestamp)
                       => ListingIndex(ret[i].blob_path) < ListingIndex(ret[j].blob_path)

\* C8: parsing a well-formed key {prefix}/org/project/repo/YYYY-MM-DD-HHMM.zip
\* under the configured prefix gives back org, project and repo exactly and
\* YYYY-MM-DD as date_str.
C8_ParseRecoversWellFormed ==
    (call.op = "parse" /\ call.well_formed) =>
        ret = [org |-> call.org, project |-> call.project, repo |-> call.repo,
               date_str |-> call.date, blob_name |-> call.key]

\* what list_repositories is handed by the store
CatalogListing ==
    list_blobs(container,
               IF StoragePrefix(env) # <<>> THEN StoragePrefix(env) \o Slash ELSE <<>>)

\* the listed archive objects that parse to repository id
ArchivesOf(id) ==
    {i \in 1..Len(CatalogListing) :
        /\ EndsWith(CatalogListing[i].name, DotZip)
        /\ _parse_blob_path(CatalogListing[i].name, env) # NoneVal
        /\ RepoId(_parse_blob_path(CatalogListing[i].name, env)) = id}

\* the calendar dates among their date_str
DatesOf(id) ==
    {d \in {_parse_blob_path(CatalogListing[i].name, env).date_str : i \in ArchivesOf(id)} :
        d # NoStr /\ IsIsoDate(d)}

DateTriple(d) ==
    <<ToInt(SubSeq(d, 1, 4)), ToInt(SubSeq(d, 6, 7)), ToInt(SubSeq(d, 9, 10))>>

\* C9: every summary returned by list_repositories counts the listed .zip
\* objects that parse to its id, and its last_backup is the latest calendar
\* date among their date_str (None when none of them has one), in whatever
\* order the objects are listed.
C9_CountAndLastBackup ==
    call.op = "list_repositories" =>
        \A k \in 1..Len(ret) :
            /\ ret[k].backup_count = Cardinality(ArchivesOf(ret[k].id))
            /\ IF DatesOf(ret[k].id) = {}
               THEN ret[k].last_backup = NoStr
               ELSE /\ ret[k].last_backup # NoStr
                    /\ Take(ret[k].last_backup, 10) \in DatesOf(ret[k].id)
                    /\ \A d \in DatesOf(ret[k].id) :
                           ~TupleGt(DateTriple(d),
                                    DateTriple(Take(ret[k].last_backup, 10)))

\* two backups of one repository, the later date listed first
C9_Witness ==
    /\ call.op = "list_repositories"
    /\ Len(container) = 2
    /\ container[1].name = K2 /\ container[2].name = K1
    /\ Len(ret) = 1
    /\ ret[1].backup_count = 2
    /\ Take(ret[1].last_backup, 10) = Date2

ConflictOutcome(target) ==
    ErrorOutcome("Repository {} already exists in {}", <<target.name, target.project>>)

\* the create-repository requests among the network calls of the invocation
CreateCalls == {i \in 1..Len(net) : net[i].to = "destination_host"}

\* C1 as claimed: a restore whose target name exists at the destination
\* ends in the conflict Error.
C1_ExistingTargetGivesConflict ==
    (call.op = "restore" /\ call.existed) =>
        /\ ~raised
        /\ ret = ConflictOutcome(call.target)

\* C1 as amended: a restore whose create-repository call is answered with
\* HTTP 409 ends in the conflict Error, which is neither the generic
\* "Failed to create repository" Error nor a Success.
C1_Status409GivesConflict ==
    (call.op = "restore"
     /\ \E i \in CreateCalls : net[i].answered /\ net[i].status = 409) =>
        /\ ~raised
        /\ ret = ConflictOutcome(call.target)
        /\ ret.status = "error"
        /\ ret.message.fmt # "Failed to create repository: {}"

C1_Witness ==
    /\ call.op = "restore"
    /\ call.existed
    /\ \E i \in CreateCalls : net[i].answered /\ net[i].status = 409
    /\ ret.status = "error"

\* C2: a restore made while AZURE_DEVOPS_PAT is unset ends in an Error that
\* names the missing token setting, and attempts no network call.
C2_NoPatNoNetwork ==
    (call.op = "restore" /\ env.pat = <<>>) =>
        /\ ~raised
        /\ ret = ErrorOutcome("Azure DevOps PAT not configured. Set AZURE_DEVOPS_PAT environment variable.", <<>>)
        /\ net = <<>>

\* C3: every restore returns one outcome, Success or Error; no failure of a
\* step leaves it as an exception.
C3_RestoreAlwaysReturns ==
    call.op = "restore" =>
        /\ ~raised
        /\ ret.status \in {"success", "error"}

\* C4: the outcome of a restore tells whether the invocation created a
\* repository: an Error means none was created, a Success means one was.
C4_OutcomeTellsCreation ==
    (call.op = "restore" /\ ~raised) =>
        /\ ret.status = "error" => \A i \in CreateCalls : ~net[i].created
        /\ ret.status = "success" =>
               \E i \in CreateCalls : net[i].created /\ net[i].status \in {200, 201}

\* the blobs of the container whose version id under repo_id is backup_id
BlobsWithId(repo_id, backup_id) ==
    {i \in 1..Len(container) :
        /\ _parse_blob_path(container[i].name, env) # NoneVal
        /\ RepoId(_parse_blob_path(container[i].name, env)) = repo_id
        /\ repo_id \o Dash \o FStr(_parse_blob_path(container[i].name, env).date_str)
               = backup_id}

ConfiguredAccountKey == ConnGet(Split(env.conn, ";"), AccountKeyKey)

\* C5: get_download_link never raises, and when the version is found and
\* signing fails it returns the plain URL of the object.
C5_LinkNeverRaises ==
    call.op = "get_download_link" =>
        /\ ~raised
        /\ (ret # NoneVal /\ ConfiguredAccountKey # <<>>
            /\ ~KeyDecodes(ConfiguredAccountKey)) => ret.kind = "plain"

C11_AtMostOneCreateCall ==
    call.op = "restore" =>
        /\ Cardinality(CreateCalls) <= 1
        /\ \A i \in CreateCalls :
               /\ i = Len(net)
               /\ ~raised
               /\ ret.status \in {"success", "error"}

\* a create request that was not answered 2xx (refused, timed out, 401, 500
\* or 409) was sent once and the restore ended in an Error
C11_Witness ==
    /\ call.op = "restore"
    /\ Cardinality(CreateCalls) = 1
    /\ \E i \in CreateCalls : ~net[i].answered \/ net[i].status \notin {200, 201}
    /\ call.host.transport = "timeout"
    /\ ret.status = "error"

\* the last path segment of an object key, and that segment without the
\* archive suffix
FilenameOfKey(key) == SubSeq(key, RFind(key, "/") + 1, Len(key))

StemOfKey(key) ==
    SubSeq(FilenameOfKey(key), 1, Len(FilenameOfKey(key)) - Len(DotZip))

\* s has the shape DDDD-DD-DD
HasDateShape(s) ==
    /\ Len(s) = 10
    /\ s[5] = "-" /\ s[8] = "-"
    /\ AllDigits(SubSeq(s, 1, 4)) /\ AllDigits(SubSeq(s, 6, 7))
    /\ AllDigits(SubSeq(s, 9, 10))

\* C12: whenever _parse_blob_path returns a date_str, the filename of the
\* key ends in .zip and the first 10 characters of the filename without the
\* suffix have the shape YYYY-MM-DD; for every other filename date_str is
\* None.
C12_DateStrOnlyForDateShape ==
    (call.op = "parse" /\ ret # NoneVal /\ ret.date_str # NoStr) =>
        /\ EndsWith(FilenameOfKey(call.key), DotZip)
        /\ HasDateShape(Take(StemOfKey(call.key), 10))

\* what list_backup_versions returns for id over the store as it is
VersionsNow(id) == list_backup_versions(id, env, container, TRUE, clock, 0).val

\* C13: for every summary s that list_repositories returns,
\* list_backup_versions(s.id) over the same store returns exactly
\* s.backup_count versions, and each of them is an object whose key parses
\* to s.org, s.project and s.repo.
C13_CatalogAgreesWithVersions ==
    (call.op = "list_repositories" /\ call.store_up /\ ~raised) =>
        \A k \in 1..Len(ret) :
            /\ Len(VersionsNow(ret[k].id)) = ret[k].backup_count
            /\ \A i \in 1..Len(VersionsNow(ret[k].id)) :
                   /\ _parse_blob_path(VersionsNow(ret[k].id)[i].blob_path, env).org
                          = ret[k].org
                   /\ _parse_blob_path(VersionsNow(ret[k].id)[i].blob_path, env).project
                          = ret[k].project
                   /\ _parse_blob_path(VersionsNow(ret[k].id)[i].blob_path, env).repo
                          = ret[k].repo

\* the object a download URL points at is the one with this key
LinksTo(url, blob_path) ==
    /\ url # NoneVal
    /\ IF url.kind = "sas" THEN url.token.blob_name = blob_path
       ELSE url.path = Quote(blob_path)

\* the link and the preview that version id resolves to over the store as
\* it is, under the repository id of the listing
LinkNow(id) ==
    get_download_link(call.repo_id, id, env, container, TRUE, clock, call.dt).val

PreviewNow(id) ==
    get_restore_preview(call.repo_id, id, env, container, TRUE, clock, call.dt).val

\* C14: the ids of the versions that one list_backup_versions call returns
\* are pairwise distinct, and for each version v of the result
\* get_download_link(repo_id, v.id) points at v's blob_path and
\* get_restore_preview(repo_id, v.id) shows v's timestamp and size.
C14_VersionIdsDistinct ==
    (call.op = "list_backup_versions" /\ ~raised) =>
        /\ \A i, j \in 1..Len(ret) : i < j => ret[i].id # ret[j].id
        /\ \A i \in 1..Len(ret) :
               /\ LinksTo(LinkNow(ret[i].id), ret[i].blob_path)
               /\ PreviewNow(ret[i].id).backup_timestamp = ret[i].timestamp
               /\ PreviewNow(ret[i].id).backup_size_mb = ret[i].size_mb

====
